---- MODULE Spec2Model ----
(***************************************************************************)
(* Model of the file-backed product server (src/server.js): one JSON file  *)
(* holding the product array, a public read route, a health route and four *)
(* password-gated write routes.                                            *)
(*                                                                         *)
(* A JSON object is a function from property names to strings.  A request  *)
(* property that is not sent is the JavaScript value undefined (Undef).    *)
(* URL parameters are sequences of one-character strings, so that parseInt *)
(* can be computed character by character as the runtime does.             *)
(***************************************************************************)
EXTENDS Integers, Sequences, FiniteSets, TLC

VARIABLES
    file,   \* parsed content of DATA_FILE: the stored product array
    conn,   \* per connection: idle, a parsed request waiting for its handler, or a sent response
    run     \* number of 201 creates since the store was empty with no other write; -1 otherwise

vars == <<file, conn, run>>

(***************************************************************************)
(* Bounds of the model.                                                    *)
(***************************************************************************)
MaxLen == 3     \* a create is only issued while the stored array is shorter

(***************************************************************************)
(* Program constants.                                                      *)
(***************************************************************************)
ADMIN_PASSWORD == "yoshon2024"
Sentinel == "Status N/A Yet"

(***************************************************************************)
(* JavaScript values and operators used by the handlers.                   *)
(***************************************************************************)
Undef == "<undefined>"

\* ToBoolean that takes '' for a value: only undefined is falsy.
TruthyLoose(v) == v # Undef

\* ToBoolean on a string or undefined: undefined and '' are falsy.
Truthy(v) == v # Undef /\ v # ""

\* a || b
Or(a, b) == IF Truthy(a) THEN a ELSE b

Min(a, b) == IF a < b THEN a ELSE b

IsWs(c) == c \in {" "}

RECURSIVE TrimStart(_)
TrimStart(s) == IF s # <<>> /\ IsWs(Head(s)) THEN TrimStart(Tail(s)) ELSE s

DigitOf(c) ==
    CASE c = "0" -> 0 [] c = "1" -> 1 [] c = "2" -> 2 [] c = "3" -> 3
      [] c = "4" -> 4 [] c = "5" -> 5 [] c = "6" -> 6 [] c = "7" -> 7
      [] c = "8" -> 8 [] c = "9" -> 9
      [] c \in {"a", "A"} -> 10 [] c \in {"b", "B"} -> 11
      [] c \in {"c", "C"} -> 12 [] c \in {"d", "D"} -> 13
      [] c \in {"e", "E"} -> 14 [] c \in {"f", "F"} -> 15
      [] OTHER -> 36

\* The longest prefix of s made of digits of the radix; NaN when it is empty.
RECURSIVE Accumulate(_, _, _, _)
Accumulate(s, radix, acc, seen) ==
    IF s = <<>> \/ DigitOf(Head(s)) >= radix
    THEN [nan |-> ~seen, val |-> acc]
    ELSE Accumulate(Tail(s), radix, acc * radix + DigitOf(Head(s)), TRUE)

\* parseInt(string) with no radix argument.
parseInt(str) ==
    LET t   == TrimStart(str)
        neg == t # <<>> /\ Head(t) = "-"
        u   == IF t # <<>> /\ Head(t) \in {"+", "-"} THEN Tail(t) ELSE t
        hex == Len(u) >= 2 /\ u[1] = "0" /\ u[2] \in {"x", "X"}
        r   == IF hex THEN Accumulate(SubSeq(u, 3, Len(u)), 16, 0, FALSE)
                      ELSE Accumulate(u, 10, 0, FALSE)
    IN  [nan |-> r.nan, val |-> IF neg THEN 0 - r.val ELSE r.val]

\* idx < n and idx >= n on a number that may be NaN: every comparison with NaN is false.
NumLt(idx, n) == ~idx.nan /\ idx.val < n
NumGe(idx, n) == ~idx.nan /\ idx.val >= n

\* A test for presence in the place of Array.isArray.
IsArrayLoose(payload) == payload.kind # "undefined"

\* Array.isArray
IsArray(payload) == payload.kind = "array"

\* products[idx] = obj.  The handler only gets here with NaN or an index in range;
\* with NaN the assignment sets the property "NaN", which is no element of the array.
SetAt(products, idx, obj) ==
    IF idx.nan \/ idx.val < 0 \/ idx.val >= Len(products) THEN products
    ELSE [products EXCEPT ![idx.val + 1] = obj]

\* products[idx] read: <<>> stands for undefined.
GetAt(products, idx) ==
    IF idx.nan \/ idx.val < 0 \/ idx.val >= Len(products) THEN <<>>
    ELSE <<products[idx.val + 1]>>

\* products.splice(idx + 1, 1): off by one.
SpliceOneAfter(products, idx) ==
    LET start == IF idx.nan THEN 0 ELSE idx.val + 1
    IN  IF start >= Len(products) THEN products
        ELSE SubSeq(products, 1, start) \o SubSeq(products, start + 2, Len(products))

\* products.splice(idx, 1) with idx >= 0 or NaN: the start index of NaN is 0.
SpliceOne(products, idx) ==
    LET start == IF idx.nan THEN 0 ELSE idx.val
    IN  IF start >= Len(products) THEN products
        ELSE SubSeq(products, 1, start) \o SubSeq(products, start + 2, Len(products))

\* JSON.stringify of one object: properties whose value is undefined are left out.
StringifyObj(o) == [k \in {j \in DOMAIN o : o[j] # Undef} |-> o[k]]

\* JSON.stringify of the array, as JSON.parse reads it back.
Stringify(products) == [i \in 1..Len(products) |-> StringifyObj(products[i])]

(***************************************************************************)
(* Requests and responses.                                                 *)
(***************************************************************************)
Slots == {1, 2}

Idle == [phase |-> "idle"]

\* The product object of the three body properties.
Obj3(b, n, y) == ("Brand" :> b) @@ ("Product Name" :> n) @@ ("Yoshon" :> y)

NoPayload == [kind |-> "undefined", items |-> <<>>]
ArrayOf(items) == [kind |-> "array", items |-> items]

Request(route, cred, b, n, y, index, payload) ==
    [route |-> route, hdr |-> cred[1], bpw |-> cred[2],
     Brand |-> b, Name |-> n, Yoshon |-> y, index |-> index, payload |-> payload]

\* status, then the optional totalProducts and product (<<>> when the body has
\* none), then the array a GET answers with.
Response(status, total, product, list) ==
    [status |-> status, total |-> total, product |-> product, list |-> list]

\* What a handler did: its response, whether it read and wrote the store
\* ("none", "ok", "fail"), the array it read and the array the file holds afterwards.
Outcome(res, read, write, base, after) ==
    [res |-> res, read |-> read, write |-> write, base |-> base, after |-> after]

(***************************************************************************)
(* The helpers of server.js.                                               *)
(***************************************************************************)
\* The array stored when the request of connection s arrived: what a handler
\* would find that read the file before the other handlers ran.
ReadViewAtArrival(s) == conn[s].seen

\* The array a handler running for connection s finds in the file: the handlers
\* call readFileSync and writeFileSync with nothing asynchronous in between, so
\* this is the array stored at the moment the handler runs.
ReadView(s) == file

\* readProducts: the parsed file, or [] when reading or parsing throws.
readProducts(s, rOk) == IF rOk THEN ReadView(s) ELSE <<>>

\* writeProducts: the content of the file after the call; it returns wOk.
\* A writeFileSync that throws is taken to leave the file as it was.
writeProducts(products, wOk) == IF wOk THEN Stringify(products) ELSE file

IoOf(ok) == IF ok THEN "ok" ELSE "fail"

\* The check without its !password test: no secret at all passes.
UnauthorizedLax(req) ==
    LET password == Or(req.hdr, req.bpw)
    IN  Truthy(password) /\ password # ADMIN_PASSWORD

\* checkAdminPassword answers 401 (TRUE) or calls next() (FALSE).
Unauthorized(req) ==
    LET password == Or(req.hdr, req.bpw)
    IN  ~Truthy(password) \/ password # ADMIN_PASSWORD

\* if (!Brand && !ProductName): one of the two is enough.
MissingRequiredBoth(b, n) == ~Truthy(b) /\ ~Truthy(n)

\* if (!Brand || !ProductName)
MissingRequired(b, n) == ~Truthy(b) \/ ~Truthy(n)

\* { Brand, 'Product Name': ProductName, Yoshon: Yoshon || 'Status N/A Yet' }
NewProduct(req) == Obj3(req.Brand, req.Name, Or(req.Yoshon, Sentinel))

Reply(status) == Outcome(Response(status, <<>>, <<>>, <<>>), "none", "none", <<>>, file)

(***************************************************************************)
(* The route handlers, each from the admin check to the response.          *)
(***************************************************************************)
\* POST /api/products
PostProductsOutcome(s, req, rOk, wOk) ==
    IF Unauthorized(req) THEN Reply(401)
    ELSE IF MissingRequired(req.Brand, req.Name) THEN Reply(400)
    ELSE LET read     == readProducts(s, rOk)
             products == Append(read, NewProduct(req))
         IN  Outcome(IF wOk THEN Response(201, <<Len(products)>>, <<NewProduct(req)>>, <<>>)
                            ELSE Response(500, <<>>, <<>>, <<>>),
                     IoOf(rOk), IoOf(wOk), read, writeProducts(products, wOk))

\* PUT /api/products/:index
PutProductOutcome(s, req, rOk, wOk) ==
    IF Unauthorized(req) THEN Reply(401)
    ELSE IF MissingRequired(req.Brand, req.Name) THEN Reply(400)
    ELSE LET read == readProducts(s, rOk)
             idx  == parseInt(req.index)
         IN  IF NumLt(idx, 0) \/ NumGe(idx, Len(read))
             THEN Outcome(Response(404, <<>>, <<>>, <<>>), IoOf(rOk), "none", read, file)
             ELSE LET products == SetAt(read, idx, NewProduct(req))
                  IN  Outcome(IF wOk THEN Response(200, <<>>, <<NewProduct(req)>>, <<>>)
                                     ELSE Response(500, <<>>, <<>>, <<>>),
                              IoOf(rOk), IoOf(wOk), read, writeProducts(products, wOk))

\* DELETE /api/products/:index
DeleteProductOutcome(s, req, rOk, wOk) ==
    IF Unauthorized(req) THEN Reply(401)
    ELSE LET read == readProducts(s, rOk)
             idx  == parseInt(req.index)
         IN  IF NumLt(idx, 0) \/ NumGe(idx, Len(read))
             THEN Outcome(Response(404, <<>>, <<>>, <<>>), IoOf(rOk), "none", read, file)
             ELSE LET deletedProduct == GetAt(read, idx)
                      products       == SpliceOne(read, idx)
                  IN  Outcome(IF wOk THEN Response(200, <<Len(products)>>, deletedProduct, <<>>)
                                     ELSE Response(500, <<>>, <<>>, <<>>),
                              IoOf(rOk), IoOf(wOk), read, writeProducts(products, wOk))

\* POST /api/products/bulk/replace
BulkReplaceOutcome(s, req, wOk) ==
    IF Unauthorized(req) THEN Reply(401)
    ELSE IF ~IsArray(req.payload) THEN Reply(400)
    ELSE LET products == req.payload.items
         IN  Outcome(IF wOk THEN Response(200, <<Len(products)>>, <<>>, <<>>)
                            ELSE Response(500, <<>>, <<>>, <<>>),
                     "none", IoOf(wOk), <<>>, writeProducts(products, wOk))

\* GET /api/products: readProducts never throws, so the catch branch is never taken.
GetProductsOutcome(s, req, rOk) ==
    LET products == readProducts(s, rOk)
    IN  Outcome(Response(200, <<>>, <<>>, products), IoOf(rOk), "none", products, file)

\* GET /api/health
HealthOutcome(s, req, rOk) ==
    LET products == readProducts(s, rOk)
    IN  Outcome(Response(200, <<Len(products)>>, <<>>, <<>>), IoOf(rOk), "none", products, file)

(***************************************************************************)
(* Actions.  bodyParser reads the request body asynchronously, so requests *)
(* on different connections can be waiting at once; the admin check and    *)
(* the handler then run to the response in one synchronous call.           *)
(***************************************************************************)
Pending(s, route) == conn[s].phase = "pending" /\ conn[s].req.route = route

NextRun(req, out) ==
    IF out.write # "ok" THEN run
    ELSE IF req.route = "POST" THEN (IF run >= 0 THEN Min(run + 1, MaxLen + 1) ELSE run)
    ELSE IF out.after = <<>> THEN 0
    ELSE 0 - 1

\* A request has been received and parsed on connection s.
Arrive(s, req) ==
    /\ conn[s] = Idle
    /\ req.route = "POST" => Len(file) < MaxLen
    /\ conn' = [conn EXCEPT ![s] = [phase |-> "pending", req |-> req, seen |-> file]]
    /\ UNCHANGED <<file, run>>

\* The handler of connection s ran with outcome out.
Finish(s, out) ==
    /\ file' = out.after
    /\ conn' = [conn EXCEPT ![s] =
                   [phase |-> "done", req |-> conn[s].req, seen |-> conn[s].seen, res |-> out.res,
                    read |-> out.read, write |-> out.write, base |-> out.base,
                    before |-> file, after |-> out.after]]
    /\ run' = NextRun(conn[s].req, out)

PostProducts(s) ==
    /\ Pending(s, "POST")
    /\ \E rOk, wOk \in BOOLEAN : Finish(s, PostProductsOutcome(s, conn[s].req, rOk, wOk))

PutProduct(s) ==
    /\ Pending(s, "PUT")
    /\ \E rOk, wOk \in BOOLEAN : Finish(s, PutProductOutcome(s, conn[s].req, rOk, wOk))

DeleteProduct(s) ==
    /\ Pending(s, "DELETE")
    /\ \E rOk, wOk \in BOOLEAN : Finish(s, DeleteProductOutcome(s, conn[s].req, rOk, wOk))

BulkReplace(s) ==
    /\ Pending(s, "BULK")
    /\ \E wOk \in BOOLEAN : Finish(s, BulkReplaceOutcome(s, conn[s].req, wOk))

GetProducts(s) ==
    /\ Pending(s, "GET")
    /\ \E rOk \in BOOLEAN : Finish(s, GetProductsOutcome(s, conn[s].req, rOk))

Health(s) ==
    /\ Pending(s, "HEALTH")
    /\ \E rOk \in BOOLEAN : Finish(s, HealthOutcome(s, conn[s].req, rOk))

\* The client has its response; the connection is free again.
Close(s) ==
    /\ conn[s].phase = "done"
    /\ conn' = [conn EXCEPT ![s] = Idle]
    /\ UNCHANGED <<file, run>>

(***************************************************************************)
(* The requests the specifications draw from.                              *)
(***************************************************************************)
Brands == {Undef, "", "Acme"}
Names == {Undef, "", "Matzo Meal"}
Yoshons == {Undef, "", "Yoshon"}

DigitChars == <<"0", "1", "2", "3", "4", "5", "6", "7", "8", "9">>
IndexOf(i) == <<DigitChars[i + 1]>>

\* Every index of a stored array, the first index past it, a negative one, a
\* word, a number followed by a letter, and a hexadecimal literal.
IndexParams ==
    {IndexOf(i) : i \in 0..MaxLen}
        \cup {<<"-", "1">>, <<"a", "b", "c">>, <<"1", "x">>, <<"0", "x", "1">>}

Good == Obj3("Acme", "Matzo Meal", "Yoshon")
Fresh == Obj3("Acme", "Matzo Meal", Sentinel)

BulkPayloads ==
    { NoPayload,
      [kind |-> "string", items |-> <<>>],
      [kind |-> "object", items |-> <<>>],
      ArrayOf(<<>>),
      ArrayOf(<<Good>>),
      ArrayOf(<<Obj3("", "Matzo Meal", "Yoshon")>>),
      ArrayOf(<<("Brand" :> "Acme"), Good>>),
      ArrayOf(<<Good @@ ("id" :> "7"), Fresh>>) }

NoIndex == <<>>
Admin == <<ADMIN_PASSWORD, Undef>>
Anonymous == <<Undef, Undef>>

RequestsWith(creds, fields, indexes, payloads) ==
    {Request("POST", c, f[1], f[2], f[3], NoIndex, NoPayload) : c \in creds, f \in fields}
        \cup {Request("PUT", c, f[1], f[2], f[3], i, NoPayload) :
                  c \in creds, f \in fields, i \in indexes}
        \cup {Request("DELETE", c, Undef, Undef, Undef, i, NoPayload) :
                  c \in creds, i \in indexes}
        \cup {Request("BULK", c, Undef, Undef, Undef, NoIndex, p) :
                  c \in creds, p \in payloads}

PublicRequests ==
    {Request(r, Anonymous, Undef, Undef, Undef, NoIndex, NoPayload) : r \in {"GET", "HEALTH"}}

CrudRequests ==
    RequestsWith({Admin, Anonymous}, Brands \X Names \X Yoshons, IndexParams, BulkPayloads)
        \cup PublicRequests

Secrets == {Undef, "", ADMIN_PASSWORD, "letmein"}

AuthRequests ==
    RequestsWith(Secrets \X Secrets,
                 {<<"Acme", "Matzo Meal", Undef>>, <<Undef, Undef, Undef>>},
                 {IndexOf(0), IndexOf(MaxLen), <<"a", "b", "c">>},
                 {NoPayload, ArrayOf(<<>>), ArrayOf(<<Good>>)})
        \cup PublicRequests

ConcRequests ==
    { Request("POST", Admin, "Acme", "Matzo Meal", Undef, NoIndex, NoPayload),
      Request("DELETE", Admin, Undef, Undef, Undef, IndexOf(0), NoPayload) }

(***************************************************************************)
(* Specifications.                                                         *)
(***************************************************************************)
\* The data file exists at startup and holds an array of well-formed products.
InitFiles == {<<>>, <<Fresh>>}

Init ==
    /\ file \in InitFiles
    /\ conn = [s \in Slots |-> Idle]
    /\ run = IF file = <<>> THEN 0 ELSE 0 - 1

Handle(s) ==
    \/ PostProducts(s)
    \/ PutProduct(s)
    \/ DeleteProduct(s)
    \/ BulkReplace(s)
    \/ GetProducts(s)
    \/ Health(s)

\* One client, every kind of request body and key.
Next ==
    \/ \E req \in CrudRequests : Arrive(1, req)
    \/ Handle(1)
    \/ Close(1)

Spec == Init /\ [][Next]_vars

\* One client, every combination of header and body secret on the write routes.
NextAuth ==
    \/ \E req \in AuthRequests : Arrive(1, req)
    \/ Handle(1)
    \/ Close(1)

SpecAuth == Init /\ [][NextAuth]_vars

\* Two clients at once.
HandleConc(s) ==
    \/ PostProducts(s)
    \/ DeleteProduct(s)

NextConc ==
    \/ \E s \in Slots, req \in ConcRequests : Arrive(s, req)
    \/ \E s \in Slots : HandleConc(s)
    \/ \E s \in Slots : Close(s)

SpecConc == Init /\ [][NextConc]_vars

(***************************************************************************)
(* Vocabulary of the properties.                                           *)
(***************************************************************************)
Done(s) == conn[s].phase = "done"

WriteRoutes == {"POST", "PUT", "DELETE", "BULK"}

Absent(v) == v \in {Undef, ""}

\* The secret the caller supplied: the x-admin-password header, else the body's password.
SuppliedSecret(req) == IF Absent(req.hdr) THEN req.bpw ELSE req.hdr

Authorized(req) == SuppliedSecret(req) = ADMIN_PASSWORD

\* The product a create or an update is asked to store.
Asked(req) == Obj3(req.Brand, req.Name, IF Absent(req.Yoshon) THEN Sentinel ELSE req.Yoshon)

\* The key is the plain decimal index i of an entry of the stored array.
Addresses(req, stored, i) == i \in 0..(Len(stored) - 1) /\ req.index = IndexOf(i)

\* The key is negative, past the end of the stored array, or no number at all.
NoSuchKey(req, stored) ==
    LET n == parseInt(req.index) IN n.nan \/ n.val < 0 \/ n.val >= Len(stored)

WellFormed(o) ==
    /\ "Brand" \in DOMAIN o /\ ~Absent(o["Brand"])
    /\ "Product Name" \in DOMAIN o /\ ~Absent(o["Product Name"])

AllWellFormed(products) == \A i \in 1..Len(products) : WellFormed(products[i])

C2_Orig ==
    \A s \in Slots :
        /\ Done(s) /\ Authorized(conn[s].req)
        /\ conn[s].read = "ok" /\ conn[s].write # "fail"
        /\ \/ conn[s].req.route = "DELETE"
           \/ conn[s].req.route = "PUT" /\ ~Absent(conn[s].req.Brand) /\ ~Absent(conn[s].req.Name)
        /\ NoSuchKey(conn[s].req, conn[s].before)
        => conn[s].res.status = 404 /\ conn[s].after = conn[s].before

(***************************************************************************)
(* C3 (as claimed): every stored record has a non-empty Brand and a        *)
(* non-empty Product Name, in every reachable state.                       *)
(***************************************************************************)
C3_Orig == AllWellFormed(file)

IllFormedBulk(req) == req.route = "BULK" /\ ~AllWellFormed(req.payload.items)

(***************************************************************************)
(* C3 (amended): no request other than a bulk replace whose payload holds  *)
(* an ill-formed entry turns a well-formed stored array into one with an   *)
(* empty or missing Brand or Product Name.                                 *)
(***************************************************************************)
C3_WellFormedKept ==
    \A s \in Slots :
        Done(s) /\ AllWellFormed(conn[s].before) /\ ~IllFormedBulk(conn[s].req)
            => AllWellFormed(conn[s].after)

C3_Witness ==
    \E s \in Slots :
        /\ Done(s) /\ conn[s].req.route = "BULK"
        /\ conn[s].req.payload = ArrayOf(<<Good @@ ("id" :> "7"), Fresh>>)
        /\ conn[s].res.status = 200
        /\ conn[s].before = <<Fresh>>
        /\ file = conn[s].req.payload.items

\* The create waiting on connection t succeeds on the array stored when it
\* arrived, and the file then holds that array plus its own product only.
LostUpdate(t) ==
    /\ PostProducts(t)
    /\ conn'[t].res.status = 201
    /\ conn'[t].base = conn[t].seen
    /\ file' = Append(conn[t].seen, Asked(conn[t].req))

C5_Orig ==
    run >= 0 =>
        /\ Len(file) = run
        /\ Done(1) /\ conn[1].req.route = "POST" /\ conn[1].res.status = 201
               => conn[1].res.total = <<run>>
        /\ Done(1) /\ conn[1].req.route = "GET" => Len(conn[1].res.list) = run
        /\ Done(1) /\ conn[1].req.route = "HEALTH" => conn[1].res.total = <<run>>

(***************************************************************************)
(* C6: an authorized POST or PUT with a missing or empty Brand or Product  *)
(* Name is answered 400 and leaves the stored array unchanged, whatever    *)
(* the key.                                                                *)
(***************************************************************************)
C6_MissingFields400 ==
    \A s \in Slots :
        /\ Done(s) /\ conn[s].req.route \in {"POST", "PUT"} /\ Authorized(conn[s].req)
        /\ Absent(conn[s].req.Brand) \/ Absent(conn[s].req.Name)
        => conn[s].res.status = 400 /\ conn[s].after = conn[s].before

\* A PUT with an empty Product Name on a key past the end: 400, not 404.
C6_Witness ==
    \E s \in Slots :
        /\ Done(s) /\ conn[s].req.route = "PUT" /\ Authorized(conn[s].req)
        /\ conn[s].req.Brand = "Acme" /\ conn[s].req.Name = ""
        /\ conn[s].before # <<>>
        /\ conn[s].req.index = IndexOf(Len(conn[s].before))
        /\ conn[s].res.status = 400

(***************************************************************************)
(* C7: an authorized bulk replace whose products is no array is answered   *)
(* 400 and leaves the stored array unchanged; with an array and a write    *)
(* that succeeds, the stored array is exactly the payload and the answer   *)
(* is 200 with totalProducts its length.                                   *)
(***************************************************************************)
C7_BulkReplace ==
    \A s \in Slots :
        Done(s) /\ conn[s].req.route = "BULK" /\ Authorized(conn[s].req)
            => /\ conn[s].req.payload.kind # "array"
                   => conn[s].res.status = 400 /\ conn[s].after = conn[s].before
               /\ conn[s].req.payload.kind = "array" /\ conn[s].write = "ok"
                   => /\ conn[s].after = conn[s].req.payload.items
                      /\ conn[s].res.status = 200
                      /\ conn[s].res.total = <<Len(conn[s].req.payload.items)>>

\* A payload with an entry that has neither Product Name nor Yoshon is stored as it is.
C7_Witness ==
    \E s \in Slots :
        /\ Done(s) /\ conn[s].req.route = "BULK" /\ Authorized(conn[s].req)
        /\ conn[s].req.payload = ArrayOf(<<("Brand" :> "Acme"), Good>>)
        /\ conn[s].before = <<Fresh>>
        /\ conn[s].res.status = 200
        /\ file = <<("Brand" :> "Acme"), Good>>

C9_Orig ==
    \A s \in Slots :
        Done(s) /\ conn[s].req.route \in {"GET", "HEALTH"} /\ conn[s].read = "fail"
            => conn[s].res.status = 500

(***************************************************************************)
(* C10 (as claimed): an authorized write is answered 200 or 201 only if    *)
(* the file write succeeded; a failed write is answered 500 with the       *)
(* stored array as before; and a create answered 201 has stored the array  *)
(* stored before it with the new product appended.                         *)
(***************************************************************************)
C10_Orig ==
    \A s \in Slots :
        Done(s) /\ conn[s].req.route \in WriteRoutes /\ Authorized(conn[s].req)
            => /\ conn[s].res.status \in {200, 201} => conn[s].write = "ok"
               /\ conn[s].write = "fail"
                   => conn[s].res.status = 500 /\ conn[s].after = conn[s].before
               /\ conn[s].req.route = "POST" /\ conn[s].res.status = 201
                   => conn[s].after = Append(conn[s].before, Asked(conn[s].req))

====
